---- MODULE Spec2Model ----
(***************************************************************************)
(* A model of kagi-translate-file.py: the chunker, the per-chunk retry     *)
(* loop of translate_chunk, and translate_file's thread pool, collector    *)
(* and assembler.                                                          *)
(*                                                                         *)
(* Strings are sequences of one-character strings.  A Python value that    *)
(* may be None is a sequence of length at most one: <<>> is None and <<t>> *)
(* is the value t.  Chunk indices are 0-based as in the source.            *)
(*                                                                         *)
(* Not modelled: the verbose progress prints and the sleeps (they change   *)
(* no state), failures of the file read and write, and main().  The        *)
(* executor is modelled by what concurrent.futures documents: max_workers  *)
(* threads serve a FIFO queue, and leaving the with block waits for every  *)
(* submitted call.                                                         *)
(***************************************************************************)
EXTENDS Integers, Sequences, FiniteSets, Bags, TLC

\* ------------------------------------------------------------------ bounds
MaxTextLen == 5
MaxMaxLength == 2
MaxMaxRequests == 2
MaxWorkers == 2
\* the chunker checked on its own
MaxChunkerTextLen == 6
MaxChunkerMaxLength == 4

\* ------------------------------------------------------- program constants
max_tries == 3

NL == "\n"
Alphabet == {"a", NL}
Texts == UNION {[1..n -> Alphabet] : n \in 0..MaxTextLen}

None == <<>>
Some(v) == <<v>>

\* ------------------------------------------------------------ the chunker
RECURSIVE SplitFrom(_, _, _)
SplitFrom(text, k, cur) ==
    IF k > Len(text) THEN <<cur>>
    ELSE IF text[k] = NL THEN <<cur>> \o SplitFrom(text, k + 1, <<>>)
    ELSE SplitFrom(text, k + 1, Append(cur, text[k]))

\* text.split('\n')
split(text) == SplitFrom(text, 1, <<>>)

RECURSIVE join(_, _)
\* sep.join(parts)
join(sep, parts) ==
    IF parts = <<>> THEN <<>>
    ELSE IF Len(parts) = 1 THEN parts[1]
    ELSE parts[1] \o sep \o join(sep, Tail(parts))

RECURSIVE ChunkLoop(_, _, _, _, _)
ChunkLoop(lines, k, chunks, current_chunk, max_length) ==
    IF k > Len(lines)
    THEN IF current_chunk # <<>> THEN Append(chunks, current_chunk) ELSE chunks
    ELSE LET line == lines[k] IN
         IF Len(current_chunk) + Len(line) + 1 > max_length /\ current_chunk # <<>>
         THEN ChunkLoop(lines, k + 1, Append(chunks, current_chunk), line, max_length)
         ELSE ChunkLoop(lines, k + 1, chunks,
                        (IF current_chunk # <<>> THEN Append(current_chunk, NL)
                                                 ELSE current_chunk) \o line,
                        max_length)

\* Variants of the chunker's loop: whether the separating newline is counted
\* in the size test, whether the line that closes a chunk starts the next
\* one, whether the last buffer is flushed only when non-empty, and whether
\* a newline is put between the lines of a chunk.
RECURSIVE ChunkLoopVariant(_, _, _, _, _, _, _, _, _)
ChunkLoopVariant(lines, k, chunks, current_chunk, max_length,
                 count_newline, keep_line, flush_nonempty, add_newline) ==
    IF k > Len(lines)
    THEN IF current_chunk # <<>> \/ ~flush_nonempty
         THEN Append(chunks, current_chunk) ELSE chunks
    ELSE LET line == lines[k]
             extra == IF count_newline THEN 1 ELSE 0
         IN
         IF Len(current_chunk) + Len(line) + extra > max_length /\ current_chunk # <<>>
         THEN ChunkLoopVariant(lines, k + 1, Append(chunks, current_chunk),
                               IF keep_line THEN line ELSE <<>>, max_length,
                               count_newline, keep_line, flush_nonempty, add_newline)
         ELSE ChunkLoopVariant(lines, k + 1, chunks,
                               (IF current_chunk # <<>> /\ add_newline
                                THEN Append(current_chunk, NL)
                                ELSE current_chunk) \o line,
                               max_length,
                               count_newline, keep_line, flush_nonempty, add_newline)

\* The size test forgets the separating newline.
split_uncounted_newline(text, max_length) ==
    ChunkLoopVariant(split(text), 1, <<>>, <<>>, max_length, FALSE, TRUE, TRUE, TRUE)
\* The line that closes a chunk is lost.
split_losing_line(text, max_length) ==
    ChunkLoopVariant(split(text), 1, <<>>, <<>>, max_length, TRUE, FALSE, TRUE, TRUE)
\* The last buffer is flushed even when empty.
split_flushing_empty(text, max_length) ==
    ChunkLoopVariant(split(text), 1, <<>>, <<>>, max_length, TRUE, TRUE, FALSE, TRUE)
\* Lines are appended to the buffer without a newline between them.
split_gluing_lines(text, max_length) ==
    ChunkLoopVariant(split(text), 1, <<>>, <<>>, max_length, TRUE, TRUE, TRUE, FALSE)

split_text_into_chunks(text, max_length) ==
    ChunkLoop(split(text), 1, <<>>, <<>>, max_length)

\* chunks[:max_requests] applied whatever max_requests is: 0 keeps nothing
\* and a negative value counts from the end.
LimitChunksUnguarded(chunks, max_requests) ==
    SubSeq(chunks, 1, IF max_requests < 0 THEN Len(chunks) + max_requests
                      ELSE IF max_requests < Len(chunks) THEN max_requests
                      ELSE Len(chunks))
\* chunks[:max_requests], applied only when max_requests > 0
LimitChunks(chunks, max_requests) ==
    IF max_requests > 0
    THEN SubSeq(chunks, 1, IF max_requests < Len(chunks) THEN max_requests ELSE Len(chunks))
    ELSE chunks

\* ------------------------------------------------------ the remote service
\* What the service may answer with as the translation of a chunk: the text
\* itself, a text that differs from it, or the empty text.
Xlat(chunk) == [k \in 1..Len(chunk) |-> IF chunk[k] = "a" THEN "A" ELSE chunk[k]]
Translations(chunk) == {chunk, Xlat(chunk), <<>>}

\* One session.post: it raises, or it returns a response with a status code
\* whose payload decodes to a text (Some) or does not decode (None).
Raised == [raised |-> TRUE, status_code |-> 0, payload |-> None]
Response(code, payload) == [raised |-> FALSE, status_code |-> code, payload |-> payload]
FailureResponses == {Raised, Response(429, None), Response(500, None), Response(200, None)}
Responses(chunk) ==
    FailureResponses \cup {Response(200, Some(t)) : t \in Translations(chunk)}

\* --------------------------------------------------------- translate_chunk
\* The function's return value: Python's None when control falls off the end,
\* otherwise the tuple (chunk_idx, result).
ReturnedNone == [tuple |-> FALSE, idx |-> -1, result |-> None]
Tuple(chunk_idx, result) == [tuple |-> TRUE, idx |-> chunk_idx, result |-> result]
NotReturned == [tuple |-> FALSE, idx |-> -2, result |-> None]

\* Variants of the loop body: the number of counted failures after which
\* the call gives up, whether a 429 response counts as a try, and whether a
\* status of 400 or more other than 429 is retried like an exception.
LoopBodyVariant(chunk_idx, tries, resp, cap, count429, retry_status) ==
    IF \/ resp.raised
       \/ resp.status_code < 400 /\ resp.payload = None
       \/ retry_status /\ resp.status_code >= 400 /\ resp.status_code # 429
    THEN IF tries + 1 < cap
         THEN [tries |-> tries + 1, done |-> FALSE, ret |-> NotReturned]
         ELSE [tries |-> tries + 1, done |-> TRUE, ret |-> Tuple(chunk_idx, None)]
    ELSE IF resp.status_code = 429
    THEN LET t == IF count429 THEN tries + 1 ELSE tries IN
         IF t < cap
         THEN [tries |-> t, done |-> FALSE, ret |-> NotReturned]
         ELSE [tries |-> t, done |-> TRUE, ret |-> ReturnedNone]
    ELSE IF resp.status_code >= 400
    THEN [tries |-> tries, done |-> TRUE, ret |-> Tuple(chunk_idx, None)]
    ELSE [tries |-> tries, done |-> TRUE, ret |-> Tuple(chunk_idx, resp.payload)]

\* A 429 response does not consume a try.
LoopBodyFree429(chunk_idx, tries, resp) ==
    LoopBodyVariant(chunk_idx, tries, resp, max_tries, FALSE, FALSE)
\* The call gives up one try early.
LoopBodyShortCap(chunk_idx, tries, resp) ==
    LoopBodyVariant(chunk_idx, tries, resp, max_tries - 1, TRUE, FALSE)
\* A status of 400 or more is retried like an exception.
LoopBodyRetryStatus(chunk_idx, tries, resp) ==
    LoopBodyVariant(chunk_idx, tries, resp, max_tries, TRUE, TRUE)

\* A 429 response starts the count of tries again.
LoopBodyReset429(chunk_idx, tries, resp) ==
    IF ~resp.raised /\ resp.status_code = 429
    THEN [tries |-> 0, done |-> FALSE, ret |-> NotReturned]
    ELSE LoopBodyVariant(chunk_idx, tries, resp, max_tries, TRUE, FALSE)

\* One pass through the body of "while tries < max_tries" with the given
\* response: the new value of tries, and the return value if the call ends.
LoopBody(chunk_idx, tries, resp) ==
    IF resp.raised \/ (resp.status_code < 400 /\ resp.payload = None)
    THEN \* except Exception
         IF tries + 1 < max_tries
         THEN [tries |-> tries + 1, done |-> FALSE, ret |-> NotReturned]
         ELSE [tries |-> tries + 1, done |-> TRUE, ret |-> Tuple(chunk_idx, None)]
    ELSE IF resp.status_code = 429
    THEN \* sleep, tries += 1, continue; the loop condition is then re-tested
         IF tries + 1 < max_tries
         THEN [tries |-> tries + 1, done |-> FALSE, ret |-> NotReturned]
         ELSE [tries |-> tries + 1, done |-> TRUE, ret |-> ReturnedNone]
    ELSE IF resp.status_code >= 400
    THEN [tries |-> tries, done |-> TRUE, ret |-> Tuple(chunk_idx, None)]
    ELSE [tries |-> tries, done |-> TRUE, ret |-> Tuple(chunk_idx, resp.payload)]

\* Every failed pass is followed by the same delay for its class.
BackoffFlat(tries, resp) ==
    IF resp.raised \/ (resp.status_code < 400 /\ resp.payload = None)
    THEN IF tries + 1 < max_tries THEN {2} ELSE {}
    ELSE IF resp.status_code = 429 THEN {5}
    ELSE {}

\* The delays time.sleep may be called with in one pass of the loop body,
\* tries being the value at the start of the pass: 2 * tries after the
\* increment for an exception that leaves a try (line 126), and
\* 5 + random.uniform(tries * 2, tries * 4) for a 429 (lines 101-104), the
\* random part taken over the whole numbers of its range; no sleep otherwise.
Backoff(tries, resp) ==
    IF resp.raised \/ (resp.status_code < 400 /\ resp.payload = None)
    THEN IF tries + 1 < max_tries THEN {2 * (tries + 1)} ELSE {}
    ELSE IF resp.status_code = 429
    THEN {5 + u : u \in (tries * 2)..(tries * 4)}
    ELSE {}

\* "if result:" / "if chunk"
Truthy(result) == result # None /\ result[1] # <<>>

\* ------------------------------------------------------------------- state
VARIABLES
    text, max_length, max_requests, workers,  \* translate_file's arguments
    mainpc,             \* where the main thread is in translate_file
    chunks,             \* the chunk list after the max_requests cut
    futures,            \* indices submitted to the executor, in order
    queue,              \* the executor's work queue
    state,              \* chunk index -> state of its future
    tries,              \* running call's chunk index -> its local tries
    ret,                \* chunk index -> translate_chunk's return value
    invocations,        \* chunk index -> times translate_chunk was entered for it
    translated_chunks,  \* the results list
    yielded,            \* indices as_completed has handed to the loop body, in order
    stdout,             \* bag of the messages printed by translate_file
    outfile,            \* None until written, then Some(text)
    mock                \* how the remote service answers in this run

vars == <<text, max_length, max_requests, workers, mainpc, chunks, futures, queue,
          state, tries, ret, invocations, translated_chunks, yielded, stdout, outfile,
          mock>>

inputs == <<text, max_length, max_requests, workers>>

Indices == 0..(Len(chunks) - 1)
Running == {i \in Indices : state[i] = "RUNNING"}
Message(msg, n) == [msg |-> msg, n |-> n]
Printed(m) == IF m \in DOMAIN stdout THEN stdout[m] ELSE 0
print(m) == stdout' = stdout (+) SetToBag({m})

\* The service answers anything ("live"), or always echoes the text ("echo"),
\* or follows a script of one response per attempt and then repeats the
\* script's last response ("script").
\* A scripted service counts the calls it has received.
Live == [mode |-> "live", script |-> <<>>, calls |-> 0, backoffs |-> <<>>]
Echo == [mode |-> "echo", script |-> <<>>, calls |-> 0, backoffs |-> <<>>]
Script(rs) == [mode |-> "script", script |-> rs, calls |-> 0, backoffs |-> <<>>]

Init ==
    /\ text \in Texts
    /\ max_length \in 1..MaxMaxLength
    /\ max_requests \in -1..MaxMaxRequests
    /\ workers \in 1..MaxWorkers
    /\ mock \in {Live, Echo}
    /\ mainpc = "read"
    /\ chunks = <<>>
    /\ futures = <<>>
    /\ queue = <<>>
    /\ state = <<>>
    /\ tries = <<>>
    /\ ret = <<>>
    /\ invocations = <<>>
    /\ translated_chunks = <<>>
    /\ yielded = <<>>
    /\ stdout = EmptyBag
    /\ outfile = None

\* ------------------------------------------------------------ main thread
\* Lines 135-156: read, split, cut, allocate the results list, announce.
Prepare ==
    /\ mainpc = "read"
    /\ LET cs == LimitChunks(split_text_into_chunks(text, max_length), max_requests)
           I == 0..(Len(cs) - 1)
       IN /\ chunks' = cs
          /\ translated_chunks' = [i \in I |-> None]
          /\ state' = [i \in I |-> "UNSUBMITTED"]
          /\ tries' = <<>>
          /\ ret' = [i \in I |-> NotReturned]
          /\ invocations' = [i \in I |-> 0]
    /\ print(Message("starting", workers))
    /\ mainpc' = "submit"
    /\ UNCHANGED <<inputs, futures, queue, yielded, outfile, mock>>

\* Line 158: executor.submit for the next chunk_args entry, in index order.
Submit ==
    /\ mainpc = "submit"
    /\ Len(futures) < Len(chunks)
    /\ LET i == Len(futures) IN
       /\ futures' = Append(futures, i)
       /\ queue' = Append(queue, i)
       /\ state' = [state EXCEPT ![i] = "PENDING"]
    /\ UNCHANGED <<inputs, mainpc, chunks, tries, ret, invocations,
                   translated_chunks, yielded, stdout, outfile, mock>>

\* Line 160: every call is submitted; the main thread enters as_completed.
Submitted ==
    /\ mainpc = "submit"
    /\ Len(futures) = Len(chunks)
    /\ mainpc' = "collect"
    /\ UNCHANGED <<inputs, chunks, futures, queue, state, tries, ret, invocations,
                   translated_chunks, yielded, stdout, outfile, mock>>

Yielded == {yielded[k] : k \in 1..Len(yielded)}

\* Line 163: the slot written for a result that carries idx and is the
\* arrival-th (from 0) to be yielded.
SlotByArrival(idx, arrival) == arrival
Slot(idx, arrival) == idx

\* Lines 160-165: as_completed yields a finished future; the body unpacks its
\* result.  Unpacking None raises TypeError inside the with block.
Collect(i) ==
    /\ mainpc = "collect"
    /\ state[i] = "FINISHED"
    /\ i \notin Yielded
    /\ yielded' = Append(yielded, i)
    /\ IF ~ret[i].tuple
       THEN /\ mainpc' = "unwind"
            /\ UNCHANGED <<translated_chunks, stdout>>
       ELSE LET idx == ret[i].idx
                result == ret[i].result
            IN /\ mainpc' = mainpc
               /\ IF Truthy(result)
                  THEN /\ translated_chunks' =
                            [translated_chunks EXCEPT ![Slot(idx, Len(yielded))] = result]
                       /\ UNCHANGED stdout
                  ELSE /\ print(Message("failed", idx + 1))
                       /\ UNCHANGED translated_chunks
    /\ UNCHANGED <<inputs, chunks, futures, queue, state, tries, ret, invocations,
                   outfile, mock>>

\* The pool is left without waiting for the calls still queued or running.
PoolDrainedNoWait == TRUE
\* Leaving "with ThreadPoolExecutor(...)" waits for every submitted call.
PoolDrained == \A i \in Indices : state[i] = "FINISHED"

\* '\n'.join([chunk for chunk in translated_chunks if chunk])
Assemble(results) ==
    LET kept == SelectSeq([k \in 1..Len(chunks) |-> results[k - 1]], Truthy)
    IN join(<<NL>>, [k \in 1..Len(kept) |-> kept[k][1]])

\* Lines 166-173: the loop is exhausted, the pool is shut down, the kept
\* chunks are joined and written, and completion is announced.
Finish ==
    /\ mainpc = "collect"
    /\ Yielded = Indices
    /\ PoolDrained
    /\ outfile' = Some(Assemble(translated_chunks))
    /\ print(Message("done", 0))
    /\ mainpc' = "done"
    /\ UNCHANGED <<inputs, chunks, futures, queue, state, tries, ret, invocations,
                   translated_chunks, yielded, mock>>

\* Lines 175-176: the exception leaves the with block, which waits for the
\* pool, and is then caught and printed; nothing is written.
Abort ==
    /\ mainpc = "unwind"
    /\ PoolDrained
    /\ print(Message("Error", 0))
    /\ mainpc' = "failed"
    /\ UNCHANGED <<inputs, chunks, futures, queue, state, tries, ret, invocations,
                   translated_chunks, yielded, outfile, mock>>

\* --------------------------------------------------------- worker threads
\* One worker thread per chunk, whatever max_workers is.
PoolSizePerChunk(max_workers, n) == n
\* The number of worker threads of ThreadPoolExecutor(max_workers=workers).
PoolSize(max_workers, n) == max_workers

\* The call taken stays in the queue.
DequeueKeep(q) == q
\* The work queue after a worker has taken its head.
Dequeue(q) == Tail(q)

\* A free worker takes the oldest queued call and enters translate_chunk
\* (lines 58-86).
Take ==
    /\ Cardinality(Running) < PoolSize(workers, Len(chunks))
    /\ queue # <<>>
    /\ LET i == Head(queue) IN
       /\ state' = [state EXCEPT ![i] = "RUNNING"]
       /\ tries' = [j \in DOMAIN tries \cup {i} |-> IF j = i THEN 0 ELSE tries[j]]
       /\ invocations' = [invocations EXCEPT ![i] = @ + 1]
    /\ queue' = Dequeue(queue)
    /\ UNCHANGED <<inputs, mainpc, chunks, futures, ret, translated_chunks,
                   yielded, stdout, outfile, mock>>

\* What the scripted service sees of one pass: the delay slept, if any.
Sleeps(delays) == IF delays = {} THEN {<<>>} ELSE {<<d>> : d \in delays}

\* The responses session.post may produce for chunk i's next attempt.
Remote(i) ==
    IF mock.mode = "live" THEN Responses(chunks[i + 1])
    ELSE IF mock.mode = "echo" THEN {Response(200, Some(chunks[i + 1]))}
    ELSE {mock.script[IF mock.calls < Len(mock.script) THEN mock.calls + 1
                                                           ELSE Len(mock.script)]}

\* Lines 88-128: one pass of the retry loop of chunk i's running call; when
\* the call returns its locals are gone.
Attempt(i) ==
    /\ state[i] = "RUNNING"
    /\ \E resp \in Remote(i) :
         LET r == LoopBody(i, tries[i], resp) IN
         /\ tries' = IF r.done THEN [j \in DOMAIN tries \ {i} |-> tries[j]]
                               ELSE [tries EXCEPT ![i] = r.tries]
         /\ ret' = [ret EXCEPT ![i] = r.ret]
         /\ state' = [state EXCEPT ![i] = IF r.done THEN "FINISHED" ELSE @]
         /\ IF mock.mode = "script"
            THEN \E slept \in Sleeps(Backoff(tries[i], resp)) :
                    mock' = [mock EXCEPT !.calls = @ + 1,
                                         !.backoffs = @ \o slept]
            ELSE mock' = mock
    /\ UNCHANGED <<inputs, mainpc, chunks, futures, queue, invocations, translated_chunks,
                   yielded, stdout, outfile>>

Next ==
    \/ Prepare
    \/ Submit
    \/ Submitted
    \/ \E i \in Indices : Collect(i)
    \/ Finish
    \/ Abort
    \/ Take
    \/ \E i \in Indices : Attempt(i)

Spec == Init /\ [][Next]_vars

\* Runs without a cap on the number of chunks (max_requests = 0): the cap
\* only shortens the chunk list before anything is submitted.
InitFair == Init /\ max_requests = 0

\* Every remote call and every sleep returns and a thread that can run is
\* eventually scheduled: while some step of the program is possible, one is
\* eventually taken.
SpecFair == InitFair /\ [][Next]_vars /\ WF_vars(Next)

\* ------------------------------------------- translate_chunk called alone
\* One call translate_chunk((chunk, ..., 0)) against a scripted service.
Scripts(chunk) == [1..max_tries -> Responses(chunk)]

InitClient ==
    /\ text \in Texts
    /\ max_length = 1
    /\ max_requests = 0
    /\ workers = 1
    /\ mock \in {Script(rs) : rs \in Scripts(text)}
    /\ mainpc = "call"
    /\ chunks = <<text>>
    /\ futures = <<>>
    /\ queue = <<>>
    /\ state = [i \in {0} |-> "RUNNING"]
    /\ tries = [i \in {0} |-> 0]
    /\ ret = [i \in {0} |-> NotReturned]
    /\ invocations = [i \in {0} |-> 1]
    /\ translated_chunks = [i \in {0} |-> None]
    /\ yielded = <<>>
    /\ stdout = EmptyBag
    /\ outfile = None

NextClient == Attempt(0)

SpecClient == InitClient /\ [][NextClient]_vars

\* ------------------------------------ split_text_into_chunks called alone
ChunkerAlphabet == {"a", "b", NL}
ChunkerTexts == UNION {[1..n -> ChunkerAlphabet] : n \in 0..MaxChunkerTextLen}

InitChunker ==
    /\ text \in ChunkerTexts
    /\ max_length \in 1..MaxChunkerMaxLength
    /\ max_requests = 0
    /\ workers = 1
    /\ mock = Live
    /\ mainpc = "split"
    /\ chunks = <<>>
    /\ futures = <<>>
    /\ queue = <<>>
    /\ state = <<>>
    /\ tries = <<>>
    /\ ret = <<>>
    /\ invocations = <<>>
    /\ translated_chunks = <<>>
    /\ yielded = <<>>
    /\ stdout = EmptyBag
    /\ outfile = None

\* chunks = split_text_into_chunks(text, max_length)
SplitText ==
    /\ mainpc = "split"
    /\ chunks' = split_text_into_chunks(text, max_length)
    /\ mainpc' = "chunked"
    /\ UNCHANGED <<inputs, futures, queue, state, tries, ret, invocations, translated_chunks,
                   yielded, stdout, outfile, mock>>

NextChunker == SplitText

SpecChunker == InitChunker /\ [][NextChunker]_vars

TypeOK ==
    /\ mainpc \in {"read", "submit", "collect", "unwind", "done", "failed", "call",
                  "split", "chunked"}
    /\ mainpc \notin {"split", "chunked"} =>
           /\ DOMAIN tries = Running
           /\ \A i \in Running : tries[i] \in 0..(max_tries - 1)

\* ------------------------------------------------------------ properties
Terminal == mainpc \in {"done", "failed"}
CallFailed(i) == state[i] = "FINISHED" /\ (~ret[i].tuple \/ ret[i].result = None)
CallSucceeded(i) == state[i] = "FINISHED" /\ ret[i].tuple /\ ret[i].result # None
IndexSeq == [k \in 1..Len(chunks) |-> k - 1]
\* The translated texts of the chunks other than i, in index order.
TextsExcept(i) ==
    LET others == SelectSeq(IndexSeq, LAMBDA j : j # i)
    IN [k \in 1..Len(others) |-> ret[others[k]].result[1]]

\* C1: with a service that always succeeds by echoing the chunk text, the run
\* never fails and the text written is the chunk list joined with single
\* newlines in index order, whatever the order in which the calls complete
\* and are yielded.
C1_CompletionOrderIndependence ==
    mock.mode = "echo" =>
        /\ mainpc \notin {"unwind", "failed"}
        /\ mainpc = "done" => outfile = Some(join(<<NL>>, chunks))

\* Three echoed chunks were yielded in the order 2, 0, 1 and the file is written.
C1_Witness ==
    /\ mock.mode = "echo"
    /\ mainpc = "done"
    /\ Len(chunks) = 3
    /\ yielded = <<2, 0, 1>>
    /\ outfile = Some(join(<<NL>>, chunks))

\* C2: whatever the remote outcomes of the chunks, a run that has read its
\* input ends with the output file written and the completion message
\* printed.
C2_RunAlwaysWrites ==
    Terminal => outfile # None /\ Printed(Message("done", 0)) = 1

\* C3: every finished translate_chunk call has returned a tuple that carries
\* the index of its own chunk.
C3_ResultCarriesIndex ==
    \A i \in Indices : state[i] = "FINISHED" => ret[i].tuple /\ ret[i].idx = i

\* C4: when the run has ended, exactly one chunk i has failed and every
\* other chunk has a non-empty translation, the file holds the other chunks'
\* translations in index order joined with single newlines.
C4_PartialFailure ==
    \A i \in Indices :
        ( /\ Terminal
          /\ CallFailed(i)
          /\ \A j \in Indices \ {i} : CallSucceeded(j) /\ Truthy(ret[j].result) )
        => outfile = Some(join(<<NL>>, TextsExcept(i)))

\* C5: at most workers calls of translate_chunk are in flight.
C5_ConcurrencyBound == Cardinality(Running) <= workers

\* More chunks than workers: the pool is full while a call still waits.
C5_Witness ==
    /\ Len(chunks) > workers
    /\ Cardinality(Running) = workers
    /\ queue # <<>>

\* The scripted service's responses, by class.
IsSuccess(r) == ~r.raised /\ r.status_code = 200 /\ r.payload # None
OtherStatus == Response(500, None)
Retryable == FailureResponses \ {OtherStatus}

\* C6: one translate_chunk call makes at most max_tries remote calls, for
\* every mix of rate-limited responses, other failures and exceptions.
C6_AttemptCap == mock.mode = "script" => mock.calls <= max_tries

\* A rate-limited response, then an exception, then a malformed payload use
\* up the three attempts of one counter.
C6_Witness ==
    /\ mock.mode = "script"
    /\ mock.script = <<Response(429, None), Raised, Response(200, None)>>
    /\ mock.calls = max_tries
    /\ state[0] = "FINISHED"
    /\ ret[0] = Tuple(0, None)

C9_NoFailFast ==
    Terminal =>
        /\ Len(futures) = Len(chunks)
        /\ \A i \in Indices : state[i] = "FINISHED"

\* Chunk 1 failed and was yielded first; chunks 0 and 2 still ran and
\* succeeded.
C9_Witness ==
    /\ mainpc = "done"
    /\ yielded = <<1, 0, 2>>
    /\ CallFailed(1)
    /\ CallSucceeded(0) /\ Truthy(ret[0].result)
    /\ CallSucceeded(2) /\ Truthy(ret[2].result)

\* C10: when the run has ended, exactly one failure message naming the chunk
\* has been printed for each chunk whose call failed, and none for a chunk
\* whose call returned a non-empty translation.
C10_FailureAnnounced ==
    Terminal =>
        \A i \in Indices :
            /\ CallFailed(i) => Printed(Message("failed", i + 1)) = 1
            /\ CallSucceeded(i) /\ Truthy(ret[i].result)
                   => Printed(Message("failed", i + 1)) = 0

\* The translated texts of the chunks whose call returned a text, in index
\* order.
SucceededTexts ==
    LET ok == SelectSeq(IndexSeq, LAMBDA j : CallSucceeded(j))
    IN [k \in 1..Len(ok) |-> ret[ok[k]].result[1]]

\* C11: the file written holds, joined with single newlines in index order,
\* the translated text of every chunk whose call returned a text, the empty
\* text included; only failed chunks are left out.
C11_SuccessIncluded ==
    mainpc = "done" => outfile = Some(join(<<NL>>, SucceededTexts))

\* The lines of the input and of the chunks.
Lines == split(text)
MaxLineLen(ls) == IF ls = <<>> THEN 0
                  ELSE CHOOSE n \in {Len(ls[k]) : k \in 1..Len(ls)} :
                           \A k \in 1..Len(ls) : Len(ls[k]) <= n
NonEmpty(line) == line # <<>>
RECURSIVE Flatten(_)
Flatten(seqs) == IF seqs = <<>> THEN <<>> ELSE Head(seqs) \o Flatten(Tail(seqs))
\* The lines of all chunks, in chunk order.
ChunkLines == Flatten([k \in 1..Len(chunks) |-> split(chunks[k])])

\* C12 as stated: when no line is longer than max_length, joining the chunks
\* with single newlines gives back the input text.
C12_RoundTripExact ==
    (mainpc = "chunked" /\ MaxLineLen(Lines) <= max_length)
    => join(<<NL>>, chunks) = text

\* C12 amended: when no line is longer than max_length and the text has no
\* empty line (or is empty), joining the chunks with single newlines gives
\* back the input text.
C12_RoundTripNoEmptyLine ==
    ( /\ mainpc = "chunked"
      /\ MaxLineLen(Lines) <= max_length
      /\ text = <<>> \/ \A k \in 1..Len(Lines) : Lines[k] # <<>> )
    => join(<<NL>>, chunks) = text

\* Three lines in a chunk of two lines and a chunk of one.
C12_Witness ==
    /\ mainpc = "chunked"
    /\ text = <<"a", NL, "b", NL, "a">>
    /\ max_length = 3
    /\ chunks = << <<"a", NL, "b">>, <<"a">> >>

\* C13: every chunk is at most max_length long, except a chunk that is one
\* line of the input longer than max_length.
C13_ChunkSizeBound ==
    mainpc = "chunked" =>
        \A k \in 1..Len(chunks) :
            \/ Len(chunks[k]) <= max_length
            \/ /\ \A n \in 1..Len(chunks[k]) : chunks[k][n] # NL
               /\ \E j \in 1..Len(Lines) : Lines[j] = chunks[k]

\* A line of four characters is a chunk of its own under max_length 3.
C13_Witness ==
    /\ mainpc = "chunked"
    /\ text = <<"a", "a", "a", "a", NL, "b">>
    /\ max_length = 3
    /\ chunks = << <<"a", "a", "a", "a">>, <<"b">> >>

\* C19: the non-empty lines of the chunks, in chunk order, are the non-empty
\* lines of the input in the same order.
C19_NonEmptyLinesPreserved ==
    mainpc = "chunked" => SelectSeq(ChunkLines, NonEmpty) = SelectSeq(Lines, NonEmpty)

\* Empty lines are lost around two lines that are kept in order.
C19_Witness ==
    /\ mainpc = "chunked"
    /\ text = <<NL, "a", NL, NL, "b", NL>>
    /\ max_length = 1
    /\ chunks = << <<"a">>, <<"b">> >>

\* C20: no chunk is the empty string, and the empty text gives no chunk.
C20_NoEmptyChunk ==
    mainpc = "chunked" =>
        /\ \A k \in 1..Len(chunks) : chunks[k] # <<>>
        /\ text = <<>> => chunks = <<>>

\* A text of empty lines only gives no chunk.
C20_Witness ==
    /\ mainpc = "chunked"
    /\ text = <<NL, NL>>
    /\ chunks = <<>>

\* C14: when max_requests = m > 0 and the chunker gives more than m chunks,
\* the chunk list is the first m of them, otherwise all of them; the calls
\* submitted are those of indices 0, 1, ... of that list, all of them once
\* submission is over; and with an echoing service the file holds exactly
\* these chunks.
C14_ChunkCountCap ==
    mainpc # "read" =>
        LET all == split_text_into_chunks(text, max_length)
            capped == IF max_requests > 0 /\ Len(all) > max_requests
                      THEN SubSeq(all, 1, max_requests) ELSE all
        IN /\ chunks = capped
           /\ \A k \in 1..Len(futures) : futures[k] = k - 1 /\ k <= Len(capped)
           /\ mainpc # "submit" => Len(futures) = Len(capped)
           /\ (mainpc = "done" /\ mock.mode = "echo")
                  => outfile = Some(join(<<NL>>, capped))

\* Three chunks cut to two.
C14_Witness ==
    /\ mainpc = "done"
    /\ mock.mode = "echo"
    /\ max_requests = 2
    /\ Len(split_text_into_chunks(text, max_length)) = 3
    /\ futures = <<0, 1>>
    /\ outfile = Some(<<"a", NL, "a">>)

\* C15: translate_chunk is entered at most once for each chunk index, exactly
\* once for a chunk whose call runs or has finished, and exactly once for
\* every chunk when the run has ended.
C15_InvokedOnce ==
    \A i \in Indices :
        /\ invocations[i] <= 1
        /\ state[i] \in {"RUNNING", "FINISHED"} <=> invocations[i] = 1
        /\ Terminal => invocations[i] = 1

\* Two workers have served three chunks.
C15_Witness ==
    /\ Terminal
    /\ workers = 2
    /\ Len(chunks) = 3
    /\ \A i \in Indices : invocations[i] = 1

\* C16: the results array gets its size N, one slot per chunk, while no call
\* has been entered yet, and keeps that size for the rest of the run; a step
\* that changes a slot changes a slot still unwritten, and the slot is the
\* index carried on the result yielded in that step, which holds that
\* result's text.
C16_DisjointSlotWrites ==
    [][/\ mainpc = "read" =>
              /\ DOMAIN translated_chunks' = 0..(Len(chunks') - 1)
              /\ \A i \in DOMAIN invocations' : invocations'[i] = 0
       /\ mainpc # "read" =>
              /\ DOMAIN translated_chunks' = DOMAIN translated_chunks
              /\ \A i \in DOMAIN translated_chunks :
                    translated_chunks'[i] # translated_chunks[i] =>
                        /\ translated_chunks[i] = None
                        /\ yielded' = Append(yielded, i)
                        /\ ret[i].tuple
                        /\ ret[i].idx = i
                        /\ translated_chunks'[i] = ret[i].result
                        /\ \A j \in DOMAIN translated_chunks \ {i} :
                              translated_chunks'[j] = translated_chunks[j]
      ]_vars

\* The last of three chunks finished first and its slot alone is written.
C16_Witness ==
    /\ Len(chunks) = 3
    /\ yielded = <<2>>
    /\ translated_chunks[2] # None
    /\ translated_chunks[0] = None
    /\ translated_chunks[1] = None

\* C17: under fair scheduling, with remote calls and sleeps that return, the
\* run reaches its end with every submitted call returned; no retry loop runs
\* forever.
C17_Termination ==
    <>(/\ Terminal
       /\ Len(futures) = Len(chunks)
       /\ \A i \in Indices : state[i] = "FINISHED" /\ i \notin DOMAIN tries)

\* A single worker has served three chunks, the call for the last of them
\* gave up, and the run has ended.
C17_Witness ==
    /\ mainpc = "done"
    /\ workers = 1
    /\ Len(chunks) = 3
    /\ \A i \in Indices : state[i] = "FINISHED"
    /\ CallFailed(2)

RateLimited(r) == ~r.raised /\ r.status_code = 429
Excepted(r) == r.raised \/ (r.status_code < 400 /\ r.payload = None)

\* C18 as stated: within one call, whatever the mix of rate-limited responses
\* and exceptions, the delay slept after the second failed attempt is
\* strictly greater than the delay slept after the first.
C18_BackoffIncreases ==
    (mock.mode = "script" /\ Len(mock.backoffs) >= 2)
        => mock.backoffs[2] > mock.backoffs[1]

\* C18: the second delay is strictly greater than the first unless a
\* rate-limited response is followed by an exception; then the delays are 5
\* and 4.
C18_BackoffIncreasesUnlessExceptionAfter429 ==
    (mock.mode = "script" /\ Len(mock.backoffs) >= 2)
        => IF RateLimited(mock.script[1]) /\ Excepted(mock.script[2])
           THEN mock.backoffs[1] = 5 /\ mock.backoffs[2] = 4
           ELSE mock.backoffs[2] > mock.backoffs[1]

\* An exception then a rate-limited response: delays 2 and 5 + 4.
C18_Witness ==
    /\ mock.mode = "script"
    /\ mock.script[1] = Raised
    /\ mock.script[2] = Response(429, None)
    /\ mock.backoffs = <<2, 9>>
====
